---- MODULE Spec2Model ----
(***************************************************************************)
(* tos-bridge: the embedding gateway (circuit breaker, retry loop, batch)  *)
(* of embedding.py and the dual-store operations of graph_tools.py.        *)
(*                                                                         *)
(* Spec       the shared circuit breaker driven by concurrent callers of   *)
(*            get_embedding, with time passing.                            *)
(* SpecBatch  get_embeddings_batch over the same breaker.                  *)
(* SpecStore  store_document_with_graph and graph_enhanced_search against  *)
(*            the vector store and the graph store.                        *)
(* SpecQuery  graph_enhanced_search and find_related_documents over a      *)
(*            stored corpus.                                               *)
(* SpecOps    the three operations of graph_tools.py in sequence, every    *)
(*            request of theirs answered.                                  *)
(*                                                                         *)
(* asyncio runs a coroutine without interruption between two awaits, so    *)
(* each action below is the code from one suspension point to the next.    *)
(*                                                                         *)
(* Time. The code reads time.time() only to compare the time elapsed since *)
(* last_failure_time with reset_timeout, and to sleep. The model keeps the *)
(* elapsed times themselves: since_last_failure is                         *)
(* time.time() - last_failure_time, and a sleeping caller holds the time   *)
(* its sleep still has to run. Tick lets one second pass. An elapsed time  *)
(* stops growing at reset_timeout + 1: the only comparison made with it,   *)
(* "> reset_timeout", gives the same answer for every larger value.        *)
(***************************************************************************)
EXTENDS Integers, Sequences, FiniteSets, TLC

(* ---- program constants ---- *)
failure_threshold == 3
reset_timeout == 30
max_retries == 3
None == -1

(* ---- bounds of the model ---- *)
MaxCalls == 5
MaxBatch == 2
NumTexts == 2
MaxStores == 2
MaxEntities == 2
MaxRels == 1
MaxLimit == 2
MaxDepth == 2
MaxShared == 5

Callers == {"c1", "c2"}
BatchCaller == "b1"
AllCallers == Callers \cup {BatchCaller}
Texts == 1..NumTexts
BatchInputs == UNION {[1..n -> Texts] : n \in 1..MaxBatch}

VARIABLES
    state,              \* EmbeddingCircuitBreaker.state
    failure_count,      \* EmbeddingCircuitBreaker.failure_count
    since_last_failure, \* time.time() - EmbeddingCircuitBreaker.last_failure_time,
                        \* None while last_failure_time is None
    upstream_calls,     \* number of invocations of _get_embedding_raw
    trial,              \* the caller whose call in flight moved the breaker
                        \* open -> half-open ("none": no such call in flight)
    streak,             \* failed upstream calls since the breaker was closed with
                        \* failure_count 0, None once a call succeeded in between
    cl                  \* per caller: the frame of get_embedding / get_embeddings_batch

bvars == <<state, failure_count, since_last_failure, upstream_calls, trial, streak, cl>>

VARIABLES
    points,             \* the vector store: the points upserted so far
    nodes,              \* the graph store: its nodes, in order of creation
    edges,              \* the graph store: its relationships
    next_id,            \* the number of ids uuid.uuid4() has handed out
    op                  \* the frame of the operation in progress, or of the latest
                        \* one: arguments, position, requests sent, its graph-store
                        \* driver, result

svars == <<points, nodes, edges, next_id, op>>
vars == <<bvars, svars>>

(* ------------------------------------------------------------------ *)
(* EmbeddingCircuitBreaker                                            *)
(* ------------------------------------------------------------------ *)

Breaker == [state |-> state, failure_count |-> failure_count,
            since_last_failure |-> since_last_failure]

\* mutant: the timeout counts as elapsed one second early
ResetElapsed_AtTimeout(elapsed) == elapsed >= reset_timeout

\* line 32: time.time() - self.last_failure_time > self.reset_timeout
ResetElapsed(elapsed) == elapsed > reset_timeout

\* lines 31-36: the admission check of call(); "raise" is admitted = FALSE
Admission(b) ==
    IF b.state = "open"
    THEN IF ResetElapsed(b.since_last_failure)
         THEN [b |-> [b EXCEPT !.state = "half-open"], admitted |-> TRUE, probe |-> TRUE]
         ELSE [b |-> b, admitted |-> FALSE, probe |-> FALSE]
    ELSE [b |-> b, admitted |-> TRUE, probe |-> FALSE]

\* mutant: every success clears the counter
OnSuccess_ResetsAlways(b) ==
    [b EXCEPT !.state = IF @ = "half-open" THEN "closed" ELSE @,
              !.failure_count = 0]

\* mutant: the recovery closes the breaker and keeps the old counter
OnSuccess_KeepCount(b) ==
    IF b.state = "half-open" THEN [b EXCEPT !.state = "closed"] ELSE b

\* lines 40-43: bookkeeping after func returned
OnSuccess(b) ==
    IF b.state = "half-open"
    THEN [b EXCEPT !.state = "closed", !.failure_count = 0]
    ELSE b

\* mutant: the breaker opens one failure late
ThresholdReached_Late(n) == n > failure_threshold

\* line 49: self.failure_count >= self.failure_threshold
ThresholdReached(n) == n >= failure_threshold

\* lines 46-50: bookkeeping after func raised; last_failure_time = time.time()
OnFailure(b) ==
    LET n == b.failure_count + 1 IN
    [state |-> IF ThresholdReached(n) THEN "open" ELSE b.state,
     failure_count |-> n,
     since_last_failure |-> 0]

SetBreaker(b) ==
    /\ state' = b.state
    /\ failure_count' = b.failure_count
    /\ since_last_failure' = b.since_last_failure

(* ------------------------------------------------------------------ *)
(* get_embedding / get_embeddings_batch                               *)
(* ------------------------------------------------------------------ *)

\* the vector the provider returns for a text (data["embedding"])
Embedding(t) == <<"vec", t>>

\* mutant: linear instead of exponential backoff
WaitTime_Linear(attempt) == 2 * attempt

\* line 116: wait_time = 2 ** attempt
WaitTime(attempt) == 2 ^ attempt

IdleFrame ==
    [pc |-> "idle", kind |-> "none", texts |-> <<>>, started |-> <<>>,
     embeddings |-> <<>>, attempt |-> 0, tries |-> 0, waits |-> <<>>,
     last_err |-> "none", sleep_left |-> 0,
     status |-> "none", error |-> "none", returned |-> <<>>]

\* lines 110-118: the except branch of get_embedding after attempt f.attempt
\* raised e. On the last attempt the error leaves get_embedding, and
\* get_embeddings_batch (lines 141-143) does not catch it.
AfterError(f, e) ==
    IF f.attempt = max_retries - 1
    THEN [f EXCEPT !.pc = "done", !.status = "error", !.error = e,
                   !.last_err = e, !.returned = <<>>]
    ELSE [f EXCEPT !.pc = "sleep", !.last_err = e,
                   !.waits = Append(@, WaitTime(f.attempt)),
                   !.sleep_left = WaitTime(f.attempt)]

\* line 36: the error of a rejected call
CircuitOpen == "Embedding service circuit breaker open - too many failures"

\* lines 103-105 and 30-39: one attempt enters the breaker with breaker
\* bookkeeping b; it is either passed to _get_embedding_raw or rejected.
EnterCall(c, f, b, tr) ==
    LET a == Admission(b) IN
    IF a.admitted
    THEN /\ upstream_calls < MaxCalls
         /\ SetBreaker(a.b)
         /\ upstream_calls' = upstream_calls + 1
         /\ trial' = IF a.probe THEN c ELSE tr
         /\ cl' = [cl EXCEPT ![c] = [f EXCEPT !.pc = "upstream", !.tries = @ + 1]]
    ELSE /\ SetBreaker(b)
         /\ upstream_calls' = upstream_calls
         /\ trial' = tr
         /\ cl' = [cl EXCEPT ![c] =
                      AfterError([f EXCEPT !.tries = @ + 1], CircuitOpen)]

\* mutant: the batch loop embeds its first text again
NewLoop_FirstText(f) ==
    [f EXCEPT !.attempt = 0, !.tries = 0, !.waits = <<>>, !.last_err = "none",
              !.started = Append(@, f.texts[1])]

\* lines 99-101: get_embedding(text) begins: attempt 0 of a new retry loop
NewLoop(f) ==
    [f EXCEPT !.attempt = 0, !.tries = 0, !.waits = <<>>, !.last_err = "none",
              !.started = Append(@, f.texts[Len(f.started) + 1])]

\* a caller awaits get_embedding(text)
StartEmbedding(c, t) ==
    /\ UNCHANGED svars
    /\ cl[c].pc = "idle"
    /\ EnterCall(c, NewLoop([IdleFrame EXCEPT !.kind = "single", !.texts = <<t>>]),
                 Breaker, trial)
    /\ UNCHANGED streak

\* a caller awaits get_embeddings_batch(texts), lines 140-142
StartBatch(c, ts) ==
    /\ UNCHANGED svars
    /\ cl[c].pc = "idle"
    /\ EnterCall(c, NewLoop([IdleFrame EXCEPT !.kind = "batch", !.texts = ts]),
                 Breaker, trial)
    /\ UNCHANGED streak

\* lines 141-144: get_embedding returned emb to the batch loop
BatchNext(f) == Len(f.embeddings) < Len(f.texts)

\* lines 39-44, 106-108: _get_embedding_raw returned
UpstreamSucceed(c) ==
    /\ UNCHANGED svars
    /\ cl[c].pc = "upstream"
    /\ LET f == cl[c]
           b == OnSuccess(Breaker)
           emb == Embedding(f.texts[Len(f.started)])
           g == [f EXCEPT !.embeddings = Append(@, emb)]
           tr == IF trial = c THEN "none" ELSE trial
       IN /\ streak' = IF b.state = "closed" /\ b.failure_count = 0 THEN 0 ELSE None
          /\ IF f.kind = "batch" /\ BatchNext(g)
               THEN EnterCall(c, NewLoop(g), b, tr)
               ELSE /\ SetBreaker(b)
                    /\ upstream_calls' = upstream_calls
                    /\ trial' = tr
                    /\ cl' = [cl EXCEPT ![c] =
                                [g EXCEPT !.pc = "done", !.status = "ok",
                                          !.returned = IF f.kind = "batch"
                                                       THEN g.embeddings
                                                       ELSE <<emb>>]]

\* lines 45-53, 110-118: _get_embedding_raw raised
UpstreamFail(c) ==
    /\ UNCHANGED svars
    /\ cl[c].pc = "upstream"
    /\ SetBreaker(OnFailure(Breaker))
    /\ cl' = [cl EXCEPT ![c] = AfterError(cl[c], "upstream error")]
    /\ trial' = IF trial = c THEN "none" ELSE trial
    /\ streak' = IF streak = None THEN None ELSE streak + 1
    /\ UNCHANGED upstream_calls

\* line 118 -> 101: asyncio.sleep(wait_time) is over, the next attempt starts
Wake(c) ==
    /\ UNCHANGED svars
    /\ cl[c].pc = "sleep"
    /\ cl[c].sleep_left = 0
    /\ EnterCall(c, [cl[c] EXCEPT !.attempt = @ + 1], Breaker, trial)
    /\ UNCHANGED streak

\* the caller has its result (or the error); its frame is gone
Return(c) ==
    /\ UNCHANGED svars
    /\ cl[c].pc = "done"
    /\ cl' = [cl EXCEPT ![c] = IdleFrame]
    /\ UNCHANGED <<state, failure_count, since_last_failure, upstream_calls, trial, streak>>

\* an elapsed time one second later
Later(elapsed) ==
    IF elapsed = None \/ elapsed > reset_timeout THEN elapsed ELSE elapsed + 1

\* one second passes: elapsed times grow, sleeps run down
Tick ==
    /\ UNCHANGED svars
    /\ since_last_failure' = Later(since_last_failure)
    /\ cl' = [c \in AllCallers |->
                [cl[c] EXCEPT !.sleep_left = IF @ > 0 THEN @ - 1 ELSE 0]]
    /\ UNCHANGED <<state, failure_count, upstream_calls, trial, streak>>


(* ------------------------------------------------------------------ *)
(* store_document_with_graph                                          *)
(*                                                                    *)
(* The only await of the function is get_embedding (line 77); its     *)
(* store clients are synchronous, so from there to its return no      *)
(* other operation of the process runs. The model runs one operation  *)
(* at a time and shows it request by request; a request that raises   *)
(* ends the operation in the except branch (lines 178-183).           *)
(* ------------------------------------------------------------------ *)

Collections == {"notes"}
Names == {"X", "Y"}
Types == {"concept", "tool"}

\* relationship types are strings: sequences of characters
MENTIONS == <<"M", "E", "N", "T", "I", "O", "N", "S">>
REFERENCES == <<"R", "E", "F", "E", "R", "E", "N", "C", "E", "S">>
RelTypeArgs == {<<"r", "e", "f", "e", "r", "e", "n", "c", "e", "s">>,
                <<"u", "s", "e", "d", " ", "b", "y">>}

EntityArgs == [name : Names, type : Types]
RelArgs == [target : Names, rel_type : RelTypeArgs]
SeqsUpTo(S, n) == UNION {[1..k -> S] : k \in 0..n}

\* the arguments of one store_document_with_graph call
StoreArgs ==
    [collection : Collections,
     entities : SeqsUpTo(EntityArgs, MaxEntities),
     relationships : SeqsUpTo(RelArgs, MaxRels),
     limit : {0}, relationship_boost : {0}]

NoArgs ==
    [collection |-> "", entities |-> <<>>, relationships |-> <<>>,
     limit |-> 0, relationship_boost |-> 0]
NoResult ==
    [status |-> "none", error |-> "", qdrant_id |-> 0, entities_created |-> 0,
     relationships_created |-> 0, results |-> <<>>, total |-> 0]

IdleOp ==
    [pc |-> "idle", kind |-> "none", args |-> NoArgs, qdrant_id |-> 0,
     entities_created |-> 0, rels_created |-> 0, steps |-> <<>>,
     driver |-> "none",
     results_map |-> <<>>, doc_entities |-> <<>>, result |-> NoResult]

\* the exception leaves the function: no result dict is returned
Failed_Raises(f) ==
    [f EXCEPT !.pc = "done", !.result = [NoResult EXCEPT !.error = f.pc]]

\* lines 178-183: except Exception as e: return {"status": "error",
\* "error": str(e), ...}; the error text stands for the step that raised
Failed(f) ==
    [f EXCEPT !.pc = "done",
              !.result = [NoResult EXCEPT !.status = "error", !.error = f.pc]]

\* str.upper() on the characters that occur in the model
Upper(ch) ==
    CASE ch = "a" -> "A" [] ch = "b" -> "B" [] ch = "c" -> "C" [] ch = "d" -> "D"
      [] ch = "e" -> "E" [] ch = "f" -> "F" [] ch = "n" -> "N" [] ch = "r" -> "R"
      [] ch = "s" -> "S" [] ch = "u" -> "U" [] ch = "y" -> "Y"
      [] OTHER -> ch

\* line 152: rel.get("rel_type", "REFERENCES").upper().replace(" ", "_")
RelType(r) ==
    [i \in 1..Len(r.rel_type) |->
        IF Upper(r.rel_type[i]) = " " THEN "_" ELSE Upper(r.rel_type[i])]

IsDocument(n, qid) == n.label = "Document" /\ n.qdrant_id = qid
IsEntity(n, name) == n.label = "Entity" /\ n.name = name

\* lines 112-129: CREATE (d:Document {...})
NewDocument(g, qid, collection) ==
    [g EXCEPT !.nodes = Append(@, [label |-> "Document", qdrant_id |-> qid,
                                    qdrant_collection |-> collection,
                                    name |-> "", type |-> ""])]

\* CREATE in the place of MERGE: a node per reference
MergeEntity_AlwaysCreate(g, name, type) ==
    [g EXCEPT !.nodes = Append(@, [label |-> "Entity", qdrant_id |-> 0,
                                    qdrant_collection |-> "",
                                    name |-> name, type |-> type])]

\* MERGE (e:Entity {name: $name}) ON CREATE SET e.type = $type: the node of that
\* name is matched when there is one, and created otherwise
MergeEntity(g, name, type) ==
    IF \E i \in 1..Len(g.nodes) : IsEntity(g.nodes[i], name)
    THEN g
    ELSE [g EXCEPT !.nodes = Append(@, [label |-> "Entity", qdrant_id |-> 0,
                                         qdrant_collection |-> "",
                                         name |-> name, type |-> type])]

\* MATCH (d:Document {qdrant_id: $qdrant_id}) MERGE (e:Entity ...)
\* MERGE (d)-[r:<rel>]->(e): one row per matched Document node
MergeEdge(g, qid, name, type, rel) ==
    LET ds == {i \in 1..Len(g.nodes) : IsDocument(g.nodes[i], qid)}
        g1 == IF ds = {} THEN g ELSE MergeEntity(g, name, type)
        es == {i \in 1..Len(g1.nodes) : IsEntity(g1.nodes[i], name)}
    IN [g1 EXCEPT !.edges = @ \cup {[src |-> d, rel |-> rel, dst |-> e] :
                                       d \in ds, e \in es}]

\* lines 135-146: the query of one entity
WriteEntity(g, qid, e) == MergeEdge(g, qid, e.name, e.type, MENTIONS)

\* lines 152-163: the query of one relationship; ON CREATE sets no type
WriteRelationship(g, qid, r) == MergeEdge(g, qid, r.target, "", RelType(r))

Graph == [nodes |-> nodes, edges |-> edges]

SetGraph(g) ==
    /\ nodes' = g.nodes
    /\ edges' = g.edges

\* lines 134, 151, 166: where the function stands after a query of the loops
AfterItem(f) ==
    IF f.entities_created < Len(f.args.entities) THEN "entities"
    ELSE IF f.rels_created < Len(f.args.relationships) THEN "relationships"
    ELSE "close"

\* lines 75-77: the call begins and awaits get_embedding(text)
StoreBegin(a) ==
    /\ UNCHANGED bvars
    /\ op.pc \in {"idle", "done"}
    /\ next_id < MaxStores
    /\ op' = [IdleOp EXCEPT !.pc = "embed", !.kind = "store", !.args = a]
    /\ UNCHANGED <<points, nodes, edges, next_id>>

\* lines 77-80: get_embedding returned; qdrant_id = str(uuid.uuid4())
StoreEmbedded ==
    /\ UNCHANGED bvars
    /\ op.kind = "store" /\ op.pc = "embed"
    /\ next_id' = next_id + 1
    /\ op' = [op EXCEPT !.pc = "upsert", !.qdrant_id = next_id + 1]
    /\ UNCHANGED <<points, nodes, edges>>

\* line 77: get_embedding raised (breaker open or retries exhausted)
EmbeddingFails ==
    /\ UNCHANGED bvars
    /\ op.pc = "embed"
    /\ op' = Failed(op)
    /\ UNCHANGED <<points, nodes, edges, next_id>>

\* mutant: an upsert that raises is ignored and the call goes on
StoreUpsert_Swallowed(ok) ==
    /\ UNCHANGED bvars
    /\ op.kind = "store" /\ op.pc = "upsert"
    /\ points' = IF ok
                 THEN points \cup {[id |-> op.qdrant_id,
                                    collection |-> op.args.collection]}
                 ELSE points
    /\ op' = [op EXCEPT !.pc = "driver", !.steps = Append(@, "qdrant.upsert")]
    /\ UNCHANGED <<nodes, edges, next_id>>

\* lines 94-104: qdrant_client.upsert(...)
StoreUpsert(ok) ==
    /\ UNCHANGED bvars
    /\ op.kind = "store" /\ op.pc = "upsert"
    /\ LET f == [op EXCEPT !.steps = Append(@, "qdrant.upsert")] IN
       IF ok
       THEN /\ points' = points \cup {[id |-> op.qdrant_id,
                                       collection |-> op.args.collection]}
            /\ op' = [f EXCEPT !.pc = "driver"]
       ELSE /\ points' = points
            /\ op' = Failed(f)
    /\ UNCHANGED <<nodes, edges, next_id>>

\* line 107: driver = get_neo4j_driver()
StoreDriver(ok) ==
    /\ UNCHANGED bvars
    /\ op.kind = "store" /\ op.pc = "driver"
    /\ op' = IF ok
             THEN [op EXCEPT !.pc = "document", !.driver = "open",
                             !.steps = Append(@, "neo4j.driver")]
             ELSE Failed(op)
    /\ UNCHANGED <<points, nodes, edges, next_id>>

\* lines 110-133: the session opens and the Document node is created
StoreCreateDocument(ok) ==
    /\ UNCHANGED bvars
    /\ op.kind = "store" /\ op.pc = "document"
    /\ LET f == [op EXCEPT !.steps = Append(@, "neo4j.create_document")] IN
       IF ok
       THEN /\ SetGraph(NewDocument(Graph, op.qdrant_id, op.args.collection))
            /\ op' = [f EXCEPT !.pc = AfterItem(f)]
       ELSE /\ SetGraph(Graph)
            /\ op' = Failed(f)
    /\ UNCHANGED <<points, next_id>>

\* lines 134-147: one iteration of the entities loop
StoreEntity(ok) ==
    /\ UNCHANGED bvars
    /\ op.kind = "store" /\ op.pc = "entities"
    /\ LET f == [op EXCEPT !.steps = Append(@, "neo4j.merge_entity")]
           e == op.args.entities[op.entities_created + 1]
       IN IF ok
          THEN /\ SetGraph(WriteEntity(Graph, op.qdrant_id, e))
               /\ op' = LET g == [f EXCEPT !.entities_created = @ + 1]
                        IN [g EXCEPT !.pc = AfterItem(g)]
          ELSE /\ SetGraph(Graph)
               /\ op' = Failed(f)
    /\ UNCHANGED <<points, next_id>>

\* lines 151-164: one iteration of the relationships loop
StoreRelationship(ok) ==
    /\ UNCHANGED bvars
    /\ op.kind = "store" /\ op.pc = "relationships"
    /\ LET f == [op EXCEPT !.steps = Append(@, "neo4j.merge_relationship")]
           r == op.args.relationships[op.rels_created + 1]
       IN IF ok
          THEN /\ SetGraph(WriteRelationship(Graph, op.qdrant_id, r))
               /\ op' = LET g == [f EXCEPT !.rels_created = @ + 1]
                        IN [g EXCEPT !.pc = AfterItem(g)]
          ELSE /\ SetGraph(Graph)
               /\ op' = Failed(f)
    /\ UNCHANGED <<points, next_id>>

\* lines 166-176: driver.close() and the success result
StoreReturn ==
    /\ UNCHANGED bvars
    /\ op.kind = "store" /\ op.pc = "close"
    /\ op' = [op EXCEPT !.pc = "done", !.driver = "closed",
                        !.steps = Append(@, "neo4j.close"),
                        !.result = [NoResult EXCEPT
                                       !.status = "success",
                                       !.qdrant_id = op.qdrant_id,
                                       !.entities_created = op.entities_created,
                                       !.relationships_created = op.rels_created]]
    /\ UNCHANGED <<points, nodes, edges, next_id>>

InitStores ==
    /\ points = {}
    /\ nodes = <<>>
    /\ edges = {}
    /\ next_id = 0
    /\ op = IdleOp

(* ------------------------------------------------------------------ *)
(* graph_enhanced_search                                              *)
(*                                                                    *)
(* Scores are kept in hundredths: 0.9 is 90, 0.05 is 5.               *)
(* ------------------------------------------------------------------ *)

\* similarity scores the vector store may report, and relationship_boost values
Scores == {60, 95}
Boosts == {-10, 0, 20}

SearchArgs ==
    [collection : Collections, entities : {<<>>}, relationships : {<<>>},
     limit : 1..MaxLimit, relationship_boost : Boosts]

Min(x, y) == IF x <= y THEN x ELSE y

\* lines 224-229: query_points(limit=limit * 2): the nearest points of the
\* collection, best first; the scores are the vector store's
VectorHits(collection, limit) ==
    LET ids == {p.id : p \in {q \in points : q.collection = collection}}
        n == Min(2 * limit, Cardinality(ids))
    IN {h \in [1..n -> [id : ids, score : Scores]] :
           /\ \A i, j \in 1..n : h[i].id = h[j].id => i = j
           /\ \A i \in 1..n : \A j \in i..n : h[i].score >= h[j].score}

\* lines 236-244: the candidate of a vector hit
Seeded(hit) ==
    [qdrant_id |-> hit.id, score |-> hit.score, boosted_score |-> hit.score,
     graph_connections |-> {}, discovered_via_graph |-> FALSE]

\* (d:Document)-[r:MENTIONS|REFERENCES]->(e:Entity): the Entity nodes of node d
Connected(d) ==
    {e.dst : e \in {x \in edges : /\ x.src = d
                                  /\ x.rel \in {MENTIONS, REFERENCES}
                                  /\ nodes[x.dst].label = "Entity"}}

DocumentNodes == {d \in 1..Len(nodes) : nodes[d].label = "Document"}

\* lines 253-266: per seeded document that has any, the names of its entities
DocEntities(ids) ==
    LET names(id) == {nodes[e].name :
                         e \in UNION {Connected(d) :
                                        d \in {x \in DocumentNodes :
                                                 nodes[x].qdrant_id = id}}}
    IN [id \in {x \in ids : names(x) # {}} |-> names(id)]

AllEntities(de) == UNION {de[id] : id \in DOMAIN de}

\* the Entity nodes document node d shares with entity_names
Shared(d, entity_names) == {e \in Connected(d) : nodes[e].name \in entity_names}

\* lines 270-289: the rows of the expansion query: other documents of the
\* collection sharing an entity, most shared entities first, at most limit
ExpandRows(entity_names, collection, exclude_ids, limit) ==
    LET cand == {d \in DocumentNodes :
                    /\ nodes[d].qdrant_collection = collection
                    /\ nodes[d].qdrant_id \notin exclude_ids
                    /\ Shared(d, entity_names) # {}}
        count(d) == Cardinality(Shared(d, entity_names))
        n == Min(limit, Cardinality(cand))
    IN {r \in [1..n -> cand] :
           /\ \A i, j \in 1..n : r[i] = r[j] => i = j
           /\ \A i \in 1..n : \A j \in i..n : count(r[i]) >= count(r[j])
           /\ \A d \in cand : (\A i \in 1..n : r[i] # d) =>
                                 \A i \in 1..n : count(r[i]) >= count(d)}

\* without the clamp at 0.9
GraphScore_Unclamped(entity_count) == 50 + entity_count * 10

\* line 295: graph_score = min(0.9, 0.5 + (entity_count * 0.1))
GraphScore(entity_count) == Min(90, 50 + entity_count * 10)

\* lines 293-307: the candidate of a row of the expansion query
Discovered(d, entity_names, relationship_boost) ==
    LET sh == Shared(d, entity_names) IN
    [qdrant_id |-> nodes[d].qdrant_id,
     score |-> GraphScore(Cardinality(sh)),
     boosted_score |-> GraphScore(Cardinality(sh)) + relationship_boost,
     graph_connections |-> {nodes[e].name : e \in sh},
     discovered_via_graph |-> TRUE]

\* results_map[key] = c: a dict keeps the place of a key it already holds
Put(m, c) ==
    IF \E i \in 1..Len(m) : m[i].qdrant_id = c.qdrant_id
    THEN [i \in 1..Len(m) |-> IF m[i].qdrant_id = c.qdrant_id THEN c ELSE m[i]]
    ELSE Append(m, c)

RECURSIVE PutRows(_, _, _, _, _)
PutRows(m, rows, k, entity_names, relationship_boost) ==
    IF k = 0 THEN m
    ELSE Put(PutRows(m, rows, k - 1, entity_names, relationship_boost),
             Discovered(rows[k], entity_names, relationship_boost))

\* line 312: connection_boost = min(relationship_boost, len(entities) * 0.05)
ConnectionBoost(relationship_boost, n) == Min(relationship_boost, n * 5)

\* lines 310-314: the boost of the documents the first query returned
Boosted(m, de, relationship_boost) ==
    [i \in 1..Len(m) |->
        IF m[i].qdrant_id \in DOMAIN de
        THEN [m[i] EXCEPT
                 !.boosted_score =
                     @ + ConnectionBoost(relationship_boost,
                                         Cardinality(de[m[i].qdrant_id])),
                 !.graph_connections = de[m[i].qdrant_id]]
        ELSE m[i]]

\* sorted(..., key=boosted_score, reverse=True): stable, equal keys keep their order
RECURSIVE SortedByBoost(_)
SortedByBoost(m) ==
    IF m = <<>> THEN <<>>
    ELSE LET x == m[Len(m)]
             r == SortedByBoost(SubSeq(m, 1, Len(m) - 1))
             k == Cardinality({i \in 1..Len(r) : r[i].boosted_score >= x.boosted_score})
         IN SubSeq(r, 1, k) \o <<x>> \o SubSeq(r, k + 1, Len(r))

\* cut to limit without the sort
Reranked_Unsorted(m, limit) == SubSeq(m, 1, Min(limit, Len(m)))

\* lines 319-323: the rerank, cut to limit
Reranked(m, limit) ==
    LET r == SortedByBoost(m) IN SubSeq(r, 1, Min(limit, Len(r)))

\* lines 218-220: the call begins and awaits get_embedding(query)
SearchBegin(a) ==
    /\ op.pc \in {"idle", "done"}
    /\ op' = [IdleOp EXCEPT !.pc = "embed", !.kind = "search", !.args = a]
    /\ UNCHANGED <<points, nodes, edges, next_id>>
    /\ UNCHANGED bvars

\* line 220: get_embedding returned
SearchEmbedded ==
    /\ op.kind = "search" /\ op.pc = "embed"
    /\ op' = [op EXCEPT !.pc = "query"]
    /\ UNCHANGED <<points, nodes, edges, next_id>>
    /\ UNCHANGED bvars

\* without the early return of lines 231-232
SearchQuery_NoEarlyReturn(ok) ==
    /\ op.kind = "search" /\ op.pc = "query"
    /\ LET f == [op EXCEPT !.steps = Append(@, "qdrant.query_points")] IN
       IF ok
       THEN \E hits \in VectorHits(op.args.collection, op.args.limit) :
              op' = [f EXCEPT !.pc = "driver",
                              !.results_map = [i \in 1..Len(hits) |->
                                                  Seeded(hits[i])]]
       ELSE op' = Failed(f)
    /\ UNCHANGED <<points, nodes, edges, next_id>>
    /\ UNCHANGED bvars

\* lines 223-246: the vector query and the seeding of results_map
SearchQuery(ok) ==
    /\ op.kind = "search" /\ op.pc = "query"
    /\ LET f == [op EXCEPT !.steps = Append(@, "qdrant.query_points")] IN
       IF ok
       THEN \E hits \in VectorHits(op.args.collection, op.args.limit) :
              op' = IF hits = <<>>
                    THEN [f EXCEPT !.pc = "done",
                                   !.result = [NoResult EXCEPT !.status = "success"]]
                    ELSE [f EXCEPT !.pc = "driver",
                                   !.results_map = [i \in 1..Len(hits) |->
                                                       Seeded(hits[i])]]
       ELSE op' = Failed(f)
    /\ UNCHANGED <<points, nodes, edges, next_id>>
    /\ UNCHANGED bvars

\* line 249: driver = get_neo4j_driver()
SearchDriver(ok) ==
    /\ op.kind = "search" /\ op.pc = "driver"
    /\ op' = IF ok
             THEN [op EXCEPT !.pc = "entities", !.driver = "open",
                             !.steps = Append(@, "neo4j.driver")]
             ELSE Failed(op)
    /\ UNCHANGED <<points, nodes, edges, next_id>>
    /\ UNCHANGED bvars

\* lines 251-269: the entities of the seeded documents
SearchEntities(ok) ==
    /\ op.kind = "search" /\ op.pc = "entities"
    /\ LET f == [op EXCEPT !.steps = Append(@, "neo4j.entities")]
           qdrant_ids == {op.results_map[i].qdrant_id : i \in 1..Len(op.results_map)}
           de == DocEntities(qdrant_ids)
       IN op' = IF ok
                THEN [f EXCEPT !.doc_entities = de,
                               !.pc = IF AllEntities(de) # {} THEN "expand"
                                      ELSE "close"]
                ELSE Failed(f)
    /\ UNCHANGED <<points, nodes, edges, next_id>>
    /\ UNCHANGED bvars

\* lines 270-307: the expansion query and the graph-discovered candidates
SearchExpand(ok) ==
    /\ op.kind = "search" /\ op.pc = "expand"
    /\ LET f == [op EXCEPT !.steps = Append(@, "neo4j.expand")]
           qdrant_ids == {op.results_map[i].qdrant_id : i \in 1..Len(op.results_map)}
           entity_names == AllEntities(op.doc_entities)
       IN IF ok
          THEN \E rows \in ExpandRows(entity_names, op.args.collection, qdrant_ids,
                                      op.args.limit) :
                 op' = [f EXCEPT !.pc = "close",
                                 !.results_map =
                                     PutRows(@, rows, Len(rows), entity_names,
                                             op.args.relationship_boost)]
          ELSE op' = Failed(f)
    /\ UNCHANGED <<points, nodes, edges, next_id>>
    /\ UNCHANGED bvars

\* lines 310-348: the boosts, driver.close(), the rerank and the result
SearchReturn ==
    /\ op.kind = "search" /\ op.pc = "close"
    /\ LET m == Boosted(op.results_map, op.doc_entities, op.args.relationship_boost)
           r == Reranked(m, op.args.limit)
       IN op' = [op EXCEPT !.pc = "done", !.driver = "closed",
                           !.steps = Append(@, "neo4j.close"),
                           !.results_map = m,
                           !.result = [NoResult EXCEPT !.status = "success",
                                                       !.results = r,
                                                       !.total = Len(r)]]
    /\ UNCHANGED <<points, nodes, edges, next_id>>
    /\ UNCHANGED bvars

(* ------------------------------------------------------------------ *)
(* find_related_documents                                             *)
(*                                                                    *)
(* The function awaits nothing: it runs from its call to its return   *)
(* without another operation of the process in between. It is shown   *)
(* request by request like the two functions above.                   *)
(* ------------------------------------------------------------------ *)

\* relationship_types: None (given FALSE) or a list of type names
FilterArgs ==
    {[given |-> FALSE, types |-> <<>>],
     [given |-> TRUE, types |-> <<REFERENCES>>],
     [given |-> TRUE, types |-> <<MENTIONS>>]}

\* the arguments of one find_related_documents call; qdrant_id 0 is an id that
\* uuid.uuid4() never handed out, the others are the ids of a stored corpus
FindArgs ==
    [qdrant_id : 0..3, relationship_types : FilterArgs,
     max_depth : 1..MaxDepth, limit : 1..MaxLimit]

\* -[:MENTIONS|REFERENCES*1..max_depth]-: the relationships a path may walk,
\* in either direction; relationship_types takes no part in the query
Traversable == {e \in edges : e.rel \in {MENTIONS, REFERENCES}}

Other(e, n) == IF e.src = n THEN e.dst ELSE e.src

\* the paths of k relationships that start at node source; a path walks no
\* relationship twice
RECURSIVE PathsOfLength(_, _)
PathsOfLength(source, k) ==
    IF k = 0 THEN {[nodes |-> <<source>>, rels |-> <<>>]}
    ELSE UNION {
           {[nodes |-> Append(p.nodes, Other(e, p.nodes[Len(p.nodes)])),
             rels |-> Append(p.rels, e)] :
               e \in {x \in Traversable :
                        /\ p.nodes[Len(p.nodes)] \in {x.src, x.dst}
                        /\ \A i \in 1..Len(p.rels) : p.rels[i] # x}} :
           p \in PathsOfLength(source, k - 1)}

IsEntityNode(n) == nodes[n].label = "Entity"

\* lines 410-421: the columns returned for one path
PathRow(p) ==
    LET es == SelectSeq(p.nodes, IsEntityNode) IN
    [qdrant_id |-> nodes[p.nodes[Len(p.nodes)]].qdrant_id,
     shared_entities |-> [i \in 1..Len(es) |-> nodes[es[i]].name],
     rel_types |-> [i \in 1..Len(p.rels) |-> p.rels[i].rel],
     distance |-> Len(p.rels)]

\* lines 407-421: MATCH path = (source)-[...*1..max_depth]-(related:Document)
\* WHERE source <> related ... RETURN DISTINCT: the distinct rows
TraversalRows(qdrant_id, max_depth) ==
    {PathRow(p) :
        p \in {q \in UNION {PathsOfLength(source, k) :
                               source \in {d \in DocumentNodes :
                                             nodes[d].qdrant_id = qdrant_id},
                               k \in 1..max_depth} :
                 /\ nodes[q.nodes[Len(q.nodes)]].label = "Document"
                 /\ q.nodes[Len(q.nodes)] # q.nodes[1]}}

\* ORDER BY distance, size(shared_entities) DESC: row a may stand before row b
InOrder(a, b) ==
    \/ a.distance < b.distance
    \/ a.distance = b.distance /\ Len(a.shared_entities) >= Len(b.shared_entities)

\* lines 422-423: ORDER BY ... LIMIT $limit: the first rows, in an order the
\* query allows
OrderedRows(rows, limit) ==
    LET n == Min(limit, Cardinality(rows)) IN
    {r \in [1..n -> rows] :
        /\ \A i, j \in 1..n : r[i] = r[j] => i = j
        /\ \A i \in 1..n : \A j \in i..n : InOrder(r[i], r[j])
        /\ \A x \in rows : (\A i \in 1..n : r[i] # x) =>
                              \A i \in 1..n : InOrder(r[i], x)}

\* lines 382-384: the call begins
FindBegin(a) ==
    /\ op.pc \in {"idle", "done"}
    /\ op' = [IdleOp EXCEPT !.pc = "driver", !.kind = "find", !.args = a]
    /\ UNCHANGED <<points, nodes, edges, next_id>>
    /\ UNCHANGED bvars

\* line 383: driver = get_neo4j_driver()
FindDriver(ok) ==
    /\ op.kind = "find" /\ op.pc = "driver"
    /\ op' = IF ok
             THEN [op EXCEPT !.pc = "source", !.driver = "open",
                             !.steps = Append(@, "neo4j.driver")]
             ELSE Failed(op)
    /\ UNCHANGED <<points, nodes, edges, next_id>>
    /\ UNCHANGED bvars

\* lines 386-403: the source document is looked up; without it the function
\* returns status error from inside the session, before driver.close()
FindSource(ok) ==
    /\ op.kind = "find" /\ op.pc = "source"
    /\ LET f == [op EXCEPT !.steps = Append(@, "neo4j.source")] IN
       op' = IF ~ok THEN Failed(f)
             ELSE IF \E d \in DocumentNodes : nodes[d].qdrant_id = op.args.qdrant_id
             THEN [f EXCEPT !.pc = "traverse"]
             ELSE [f EXCEPT !.pc = "done",
                            !.result = [NoResult EXCEPT !.status = "error",
                                                        !.error = "not_found"]]
    /\ UNCHANGED <<points, nodes, edges, next_id>>
    /\ UNCHANGED bvars

\* lines 405-443: the traversal query and related_docs
FindTraverse(ok) ==
    /\ op.kind = "find" /\ op.pc = "traverse"
    /\ LET f == [op EXCEPT !.steps = Append(@, "neo4j.traverse")] IN
       IF ok
       THEN \E rows \in OrderedRows(TraversalRows(op.args.qdrant_id,
                                                  op.args.max_depth),
                                    op.args.limit) :
              op' = [f EXCEPT !.pc = "close", !.results_map = rows]
       ELSE op' = Failed(f)
    /\ UNCHANGED <<points, nodes, edges, next_id>>
    /\ UNCHANGED bvars

\* lines 445-457: driver.close() and the success result
FindReturn ==
    /\ op.kind = "find" /\ op.pc = "close"
    /\ op' = [op EXCEPT !.pc = "done", !.driver = "closed",
                        !.steps = Append(@, "neo4j.close"),
                        !.result = [NoResult EXCEPT
                                       !.status = "success",
                                       !.results = op.results_map,
                                       !.total = Len(op.results_map)]]
    /\ UNCHANGED <<points, nodes, edges, next_id>>
    /\ UNCHANGED bvars

(* ------------------------------------------------------------------ *)
(* A stored corpus: the stores after store_document_with_graph calls  *)
(* that all succeeded, computed with the writes modelled above.       *)
(* ------------------------------------------------------------------ *)

CorpusNames == <<"E1", "E2", "E3", "E4", "E5", "E6", "E7">>
references == <<"r", "e", "f", "e", "r", "e", "n", "c", "e", "s">>

\* a store request naming the first k entities, with or without a relationship
\* to the first of them
Request(k, rel) ==
    [collection |-> "notes",
     entities |-> [i \in 1..k |-> [name |-> CorpusNames[i], type |-> "concept"]],
     relationships |-> IF rel THEN <<[target |-> CorpusNames[1],
                                      rel_type |-> references]>>
                       ELSE <<>>,
     limit |-> 0, relationship_boost |-> 0]

Corpora ==
    {<<Request(k1, rel), Request(k2, FALSE), Request(k3, FALSE)>> :
        k1 \in 0..MaxShared, k2 \in 0..MaxShared, k3 \in {0, MaxShared},
        rel \in BOOLEAN}

\* lines 133-147 and 150-164 run to their end
RECURSIVE WriteEntities(_, _, _, _)
WriteEntities(g, qid, es, k) ==
    IF k = 0 THEN g
    ELSE WriteEntity(WriteEntities(g, qid, es, k - 1), qid, es[k])

RECURSIVE WriteRelationships(_, _, _, _)
WriteRelationships(g, qid, rs, k) ==
    IF k = 0 THEN g
    ELSE WriteRelationship(WriteRelationships(g, qid, rs, k - 1), qid, rs[k])

\* lines 110-164 of a call that succeeds
StoreSucceeded(g, qid, a) ==
    WriteRelationships(
        WriteEntities(NewDocument(g, qid, a.collection), qid,
                      a.entities, Len(a.entities)),
        qid, a.relationships, Len(a.relationships))

\* the graph after the first k requests of the corpus, the k-th under id k
RECURSIVE StoredCorpus(_, _)
StoredCorpus(corpus, k) ==
    IF k = 0 THEN [nodes |-> <<>>, edges |-> {}]
    ELSE StoreSucceeded(StoredCorpus(corpus, k - 1), k, corpus[k])

InitCorpus ==
    \E corpus \in Corpora :
        /\ nodes = StoredCorpus(corpus, Len(corpus)).nodes
        /\ edges = StoredCorpus(corpus, Len(corpus)).edges
        /\ points = {[id |-> k, collection |-> corpus[k].collection] :
                        k \in 1..Len(corpus)}
        /\ next_id = Len(corpus)
        /\ op = IdleOp

\* lines 23-28 and 56: the global breaker after construction
InitBreaker ==
    /\ state = "closed"
    /\ failure_count = 0
    /\ since_last_failure = None
    /\ upstream_calls = 0
    /\ trial = "none"
    /\ streak = 0
    /\ cl = [c \in AllCallers |-> IdleFrame]

Init == InitBreaker /\ InitStores

Next ==
    \/ \E c \in Callers, t \in Texts : StartEmbedding(c, t)
    \/ \E c \in Callers : UpstreamSucceed(c)
    \/ \E c \in Callers : UpstreamFail(c)
    \/ \E c \in Callers : Wake(c)
    \/ \E c \in Callers : Return(c)
    \/ Tick

Spec == Init /\ [][Next]_vars

NextBatch ==
    \/ \E ts \in BatchInputs : StartBatch(BatchCaller, ts)
    \/ UpstreamSucceed(BatchCaller)
    \/ UpstreamFail(BatchCaller)
    \/ Wake(BatchCaller)
    \/ Return(BatchCaller)
    \/ Tick

SpecBatch == Init /\ [][NextBatch]_vars

NextStore ==
    \/ \E a \in StoreArgs : StoreBegin(a)
    \/ StoreEmbedded
    \/ EmbeddingFails
    \/ \E ok \in BOOLEAN : StoreUpsert(ok)
    \/ \E ok \in BOOLEAN : StoreDriver(ok)
    \/ \E ok \in BOOLEAN : StoreCreateDocument(ok)
    \/ \E ok \in BOOLEAN : StoreEntity(ok)
    \/ \E ok \in BOOLEAN : StoreRelationship(ok)
    \/ StoreReturn
    \/ \E a \in SearchArgs : SearchBegin(a)
    \/ SearchEmbedded
    \/ \E ok \in BOOLEAN : SearchQuery(ok)
    \/ \E ok \in BOOLEAN : SearchDriver(ok)
    \/ \E ok \in BOOLEAN : SearchEntities(ok)
    \/ \E ok \in BOOLEAN : SearchExpand(ok)
    \/ SearchReturn

SpecStore == Init /\ [][NextStore]_vars

InitQuery == InitBreaker /\ InitCorpus

\* neither function writes to a store: a second call would start from the
\* stores the first one started from, so each behaviour makes one call
NextQuery ==
    \/ \E a \in SearchArgs : op.pc = "idle" /\ SearchBegin(a)
    \/ SearchEmbedded
    \/ EmbeddingFails
    \/ \E ok \in BOOLEAN : SearchQuery(ok)
    \/ \E ok \in BOOLEAN : SearchDriver(ok)
    \/ \E ok \in BOOLEAN : SearchEntities(ok)
    \/ \E ok \in BOOLEAN : SearchExpand(ok)
    \/ SearchReturn
    \/ \E a \in FindArgs : op.pc = "idle" /\ FindBegin(a)
    \/ \E ok \in BOOLEAN : FindDriver(ok)
    \/ \E ok \in BOOLEAN : FindSource(ok)
    \/ \E ok \in BOOLEAN : FindTraverse(ok)
    \/ FindReturn

SpecQuery == InitQuery /\ [][NextQuery]_vars

\* the three public operations side by side, on few arguments: at most one
\* entity and one relationship, one boost, unfiltered traversals
\* a relation name with a character that is neither a letter, a digit, an
\* underscore nor a space: "a-b"
hyphenated == <<"a", "-", "b">>
OpsStoreArgs ==
    {a \in StoreArgs :
        /\ Len(a.entities) <= 1 /\ Len(a.relationships) <= 1
        /\ \A i \in 1..Len(a.entities) :
              a.entities[i] = [name |-> "X", type |-> "concept"]
        /\ \A i \in 1..Len(a.relationships) :
              a.relationships[i] = [target |-> "X", rel_type |-> references]}
    \cup
    {[collection |-> c, entities |-> <<>>,
      relationships |-> <<[target |-> "X", rel_type |-> hyphenated]>>,
      limit |-> 0, relationship_boost |-> 0] : c \in Collections}
OpsSearchArgs == {a \in SearchArgs : a.relationship_boost = 20}
OpsFindArgs ==
    {a \in FindArgs : ~a.relationship_types.given /\ a.max_depth = MaxDepth}

NextOps ==
    \/ \E a \in OpsStoreArgs : StoreBegin(a)
    \/ StoreEmbedded
    \/ EmbeddingFails
    \/ \E ok \in BOOLEAN : StoreUpsert(ok)
    \/ \E ok \in BOOLEAN : StoreDriver(ok)
    \/ \E ok \in BOOLEAN : StoreCreateDocument(ok)
    \/ \E ok \in BOOLEAN : StoreEntity(ok)
    \/ \E ok \in BOOLEAN : StoreRelationship(ok)
    \/ StoreReturn
    \/ \E a \in OpsSearchArgs : SearchBegin(a)
    \/ SearchEmbedded
    \/ \E ok \in BOOLEAN : SearchQuery(ok)
    \/ \E ok \in BOOLEAN : SearchDriver(ok)
    \/ \E ok \in BOOLEAN : SearchEntities(ok)
    \/ \E ok \in BOOLEAN : SearchExpand(ok)
    \/ SearchReturn
    \/ \E a \in OpsFindArgs : FindBegin(a)
    \/ \E ok \in BOOLEAN : FindDriver(ok)
    \/ \E ok \in BOOLEAN : FindSource(ok)
    \/ \E ok \in BOOLEAN : FindTraverse(ok)
    \/ FindReturn

\* every request of a call gets its outcome: it returns or it raises
SpecOps == Init /\ [][NextOps]_vars /\ WF_vars(NextOps)

\* every operation that has begun runs on: the event loop keeps scheduling it
SpecStoreFair == SpecStore /\ WF_vars(NextStore)

(* ------------------------------------------------------------------ *)
(* Properties of the embedding gateway                                *)
(* ------------------------------------------------------------------ *)

\* caller c makes a call through EmbeddingCircuitBreaker.call in this step
CallsBreaker(c) ==
    \/ \E t \in Texts : StartEmbedding(c, t)
    \/ \E ts \in BatchInputs : StartBatch(c, ts)
    \/ Wake(c)
    \/ UpstreamSucceed(c) /\ Len(cl'[c].started) > Len(cl[c].started)

\* C1: starting from a closed breaker with failure counter 0, the failed call
\* that is the failure_threshold-th in a row leaves the breaker open, and
\* after fewer such failures the breaker is still closed.
C1_OpenAtThreshold ==
    [][\A c \in AllCallers :
         (UpstreamFail(c) /\ streak # None) =>
             /\ streak' >= failure_threshold => state' = "open"
             /\ streak' < failure_threshold => state' = "closed"]_vars

C1_Witness ==
    /\ state = "open"
    /\ streak = failure_threshold

\* C2: a call made while the breaker is open and no more than reset_timeout has
\* passed since the last failure is rejected with the circuit-open error, the
\* breaker stays open and the number of upstream invocations does not change.
C2_OpenRejects ==
    [][\A c \in AllCallers :
         (CallsBreaker(c) /\ state = "open" /\ since_last_failure <= reset_timeout) =>
             /\ upstream_calls' = upstream_calls
             /\ state' = "open"
             /\ cl'[c].pc \in {"sleep", "done"}
             /\ cl'[c].last_err = CircuitOpen]_vars

C2_Witness ==
    /\ state = "open"
    /\ since_last_failure <= reset_timeout
    /\ \E c \in AllCallers : cl[c].last_err = CircuitOpen /\ cl[c].tries >= 2
    /\ upstream_calls = failure_threshold

Backoff(n) == [i \in 1..n |-> 2 ^ (i - 1)]

\* C4: one get_embedding call makes its attempts one after another, at most
\* max_retries of them; after failed attempt i it sleeps 2^i seconds and the
\* next attempt does not start before; it returns the result of the first
\* attempt that succeeds, and raises the last attempt's error when all
\* max_retries attempts failed.
C4_RetryBackoff ==
    \A c \in AllCallers :
        LET f == cl[c] IN
        f.pc # "idle" =>
            /\ f.tries \in 1..max_retries
            /\ f.tries = f.attempt + 1
            /\ f.pc # "sleep" => f.sleep_left = 0
            /\ f.pc = "upstream" => f.waits = Backoff(f.tries - 1)
            /\ f.pc = "sleep" =>
                  /\ f.waits = Backoff(f.tries)
                  /\ f.sleep_left <= f.waits[f.tries]
                  /\ f.tries < max_retries
            /\ (f.pc = "done" /\ f.status = "ok") =>
                  /\ f.waits = Backoff(f.tries - 1)
                  /\ f.kind = "single" => f.returned = <<Embedding(f.texts[1])>>
            /\ (f.pc = "done" /\ f.status = "error") =>
                  /\ f.tries = max_retries
                  /\ f.waits = Backoff(max_retries - 1)
                  /\ f.error = f.last_err
                  /\ f.error # "none"

\* a call that failed twice and succeeded on its third attempt
C4_Witness ==
    \E c \in Callers :
        /\ cl[c].pc = "done"
        /\ cl[c].status = "ok"
        /\ cl[c].tries = max_retries
        /\ cl[c].waits = <<1, 2>>

(* ------------------------------------------------------------------ *)
(* Properties of store_document_with_graph and graph_enhanced_search  *)
(* ------------------------------------------------------------------ *)

\* the latest operation was a store_document_with_graph call that has returned
StoreDone == op.kind = "store" /\ op.pc = "done"

\* C5 as stated: a failing write of one entity or of one relationship does not
\* fail store_document_with_graph: the items after it are still attempted and
\* the result has status success, with the counts of the writes that succeeded.
C5_ItemFailureTolerated ==
    (StoreDone /\ op.result.error \in {"entities", "relationships"}) =>
        /\ op.result.status = "success"
        /\ Len(op.steps) = 4 + Len(op.args.entities) + Len(op.args.relationships)

HasPoint(id) == \E p \in points : p.id = id
HasDocument(id) == \E i \in 1..Len(nodes) : IsDocument(nodes[i], id)

\* C6 as stated: whatever step of store_document_with_graph fails, a vector
\* point is eventually matched by a Document node of the same qdrant_id, or
\* removed again: no point stays for ever without its Document node.
C6_PointEventuallyHasDocument ==
    \A id \in 1..MaxStores :
        [](HasPoint(id) => <>(HasDocument(id) \/ ~HasPoint(id)))

\* C7: when get_embedding fails, store_document_with_graph and
\* graph_enhanced_search each return a result of status error, and have sent no
\* request to the vector store and none to the graph store.
C7_EmbeddingFailureTouchesNothing ==
    (op.pc = "done" /\ op.result.error = "embed") =>
        /\ op.result.status = "error"
        /\ op.steps = <<>>
        /\ op.driver = "none"
        /\ ~HasPoint(op.qdrant_id)
        /\ ~HasDocument(op.qdrant_id)

\* a store call with entities to write, and a search over a stored document,
\* each ended by a failure of get_embedding
C7_Witness ==
    /\ op.pc = "done" /\ op.result.error = "embed"
    /\ \/ op.kind = "store" /\ op.args.entities # <<>>
       \/ op.kind = "search" /\ points # {}

\* C8 as stated: a failed batch hands the caller the vectors computed so far
C8_PartialVectorsReturned ==
    \A c \in AllCallers :
        (cl[c].kind = "batch" /\ cl[c].pc = "done" /\ cl[c].status = "error") =>
            cl[c].returned = cl[c].embeddings

\* C8 (amended): get_embeddings_batch calls get_embedding for the texts in input
\* order, one at a time; when get_embedding fails for item i no call is made
\* for a later item and the caller receives the error alone, without the
\* vectors computed for the items before i.
C8_BatchSequential ==
    \A c \in AllCallers :
        LET f == cl[c] IN
        f.kind = "batch" =>
            /\ Len(f.started) \in 1..Len(f.texts)
            /\ f.started = SubSeq(f.texts, 1, Len(f.started))
            /\ f.embeddings = [i \in 1..Len(f.embeddings) |-> Embedding(f.texts[i])]
            /\ f.pc \in {"upstream", "sleep"} => Len(f.embeddings) = Len(f.started) - 1
            /\ (f.pc = "done" /\ f.status = "ok") =>
                  /\ Len(f.embeddings) = Len(f.texts)
                  /\ f.returned = f.embeddings
            /\ (f.pc = "done" /\ f.status = "error") =>
                  /\ Len(f.embeddings) = Len(f.started) - 1
                  /\ f.returned = <<>>

\* a batch failed at its second item
C8_Witness ==
    /\ cl[BatchCaller].kind = "batch"
    /\ cl[BatchCaller].pc = "done"
    /\ cl[BatchCaller].status = "error"
    /\ Len(cl[BatchCaller].embeddings) = 1
    /\ Len(cl[BatchCaller].texts) = 2

EntityNodes(name) == {i \in 1..Len(nodes) : IsEntity(nodes[i], name)}

\* C9: whatever store_document_with_graph calls have run, to their end or to a
\* failure, the graph holds at most one Entity node of a name, be the name given
\* in the entities list or as the target of a relationship.
C9_OneEntityNodePerName ==
    \A name \in Names : Cardinality(EntityNodes(name)) <= 1

\* two documents reach the same Entity node, one by a MENTIONS edge of its
\* entities list and one by the edge of a relationship, after a call that failed
C9_Witness ==
    /\ \E e1, e2 \in edges :
          /\ e1.dst = e2.dst /\ e1.src # e2.src
          /\ e1.rel = MENTIONS /\ e2.rel # MENTIONS
    /\ StoreDone /\ op.result.status = "error"

\* C10 as stated: a successful store_document_with_graph call reports as
\* entities_created the number of distinct names in its entities argument.
C10_CountsDistinctNames ==
    (StoreDone /\ op.result.status = "success") =>
        op.result.entities_created =
            Cardinality({op.args.entities[i].name : i \in 1..Len(op.args.entities)})

\* the Document node CREATEd by the store call in progress, 0 when there is none
OwnDocument ==
    IF \E i \in 1..Len(nodes) : IsDocument(nodes[i], op.qdrant_id)
    THEN CHOOSE i \in 1..Len(nodes) : IsDocument(nodes[i], op.qdrant_id)
    ELSE 0

\* C11 as stated: when store_document_with_graph writes an entity whose name the
\* graph held before the call, the Entity node of that name then carries the
\* type given by this call.
C11_SecondCallUpdatesType ==
    (op.kind = "store" /\ op.entities_created >= 1) =>
        LET e == op.args.entities[op.entities_created]
        IN \A i \in EntityNodes(e.name) : i < OwnDocument => nodes[i].type = e.type

\* C12: store_document_with_graph, graph_enhanced_search and
\* find_related_documents each come to their return whatever the embedding
\* provider, the vector store and the graph store answer or raise, and what they
\* return is a result whose status is success or error: no exception of a
\* collaborator leaves the function.
C12_AlwaysReturnsStatus ==
    /\ [](op.pc = "done" => op.result.status \in {"success", "error"})
    /\ [](op.pc \notin {"idle", "done"} => <>(op.pc = "done"))

\* a find_related_documents call whose traversal query raised, after a store
\* call put a document into both stores
C12_Witness ==
    /\ op.kind = "find" /\ op.pc = "done"
    /\ op.result.error = "traverse"
    /\ op.result.status = "error"
    /\ HasPoint(op.args.qdrant_id)

\* the latest operation was a graph_enhanced_search call that returned its
\* ranked results
SearchDone ==
    op.kind = "search" /\ op.pc = "done" /\ op.result.status = "success"

\* C13: when query_points returns no point, graph_enhanced_search returns status
\* success with an empty result list and total 0, and has sent nothing to the
\* graph store: no driver was opened, the vector query is its only request.
C13_EmptyHitsSkipGraph ==
    (/\ op.kind = "search" /\ op.pc = "done"
     /\ op.result.error \notin {"embed", "query"}
     /\ op.results_map = <<>>) =>
        /\ op.result.status = "success"
        /\ op.result.results = <<>>
        /\ op.result.total = 0
        /\ op.steps = <<"qdrant.query_points">>
        /\ op.driver = "none"

\* a search of an empty collection that returned
C13_Witness ==
    /\ SearchDone
    /\ op.results_map = <<>>
    /\ points = {}
    /\ op.steps = <<"qdrant.query_points">>

\* the number of points query_points returned to the search in progress
NumHits ==
    Min(2 * op.args.limit,
        Cardinality({p \in points : p.collection = op.args.collection}))

\* C14: a candidate that entered results_map through the expansion query, with
\* n >= 1 shared entities, has score min(0.9, 0.5 + 0.1 n), 0.9 from n = 4 on,
\* and boosted_score = score + relationship_boost; it is flagged
\* discovered_via_graph and is none of the points query_points returned.
C14_GraphDiscoveredScore ==
    SearchDone =>
        \A i \in 1..Len(op.results_map) :
            LET c == op.results_map[i]
                n == Cardinality(c.graph_connections)
            IN (i > NumHits \/ c.discovered_via_graph) =>
                  /\ n >= 1
                  /\ c.score = IF n >= 4 THEN 90 ELSE 50 + 10 * n
                  /\ c.boosted_score = c.score + op.args.relationship_boost
                  /\ c.discovered_via_graph
                  /\ i > NumHits
                  /\ \A j \in 1..NumHits : op.results_map[j].qdrant_id # c.qdrant_id

\* a document discovered through more than four shared entities is returned
C14_Witness ==
    /\ SearchDone
    /\ \E i \in 1..Len(op.result.results) :
          /\ op.result.results[i].discovered_via_graph
          /\ Cardinality(op.result.results[i].graph_connections) > 4

\* the names of the entities document qdrant_id is connected to
ConnectedNames(qdrant_id) ==
    {nodes[e].name :
        e \in UNION {Connected(d) : d \in {x \in DocumentNodes :
                                             nodes[x].qdrant_id = qdrant_id}}}

\* C15 as stated: for every relationship_boost the function accepts, a candidate
\* returned by query_points with n connected entities has boosted_score =
\* score + min(relationship_boost, 0.05 n), never below its score and never
\* above score + relationship_boost.
C15_SeededBoost ==
    SearchDone =>
        \A i \in 1..Len(op.results_map) :
            LET c == op.results_map[i]
                n == Cardinality(ConnectedNames(c.qdrant_id))
            IN ~c.discovered_via_graph =>
                  /\ c.boosted_score = c.score + Min(op.args.relationship_boost, 5 * n)
                  /\ c.boosted_score >= c.score
                  /\ c.boosted_score <= c.score + op.args.relationship_boost

\* C16: the list a successful graph_enhanced_search returns has at most limit
\* entries, all of them candidates, in non-increasing order of boosted_score,
\* and no candidate left out has a boosted_score above that of one returned.
C16_TopLimitByBoost ==
    SearchDone =>
        LET r == op.result.results
            m == op.results_map
        IN /\ Len(r) <= op.args.limit
           /\ Len(r) = Min(op.args.limit, Len(m))
           /\ op.result.total = Len(r)
           /\ \A i \in 1..Len(r) : \E j \in 1..Len(m) : r[i] = m[j]
           /\ \A i, j \in 1..Len(r) : i < j => r[i].boosted_score >= r[j].boosted_score
           /\ \A j \in 1..Len(m) :
                 (\A i \in 1..Len(r) : r[i] # m[j]) =>
                     \A i \in 1..Len(r) : m[j].boosted_score <= r[i].boosted_score

\* more candidates than limit, a graph-discovered one ranked first and a point
\* of the vector query left out
C16_Witness ==
    /\ SearchDone
    /\ Len(op.results_map) > op.args.limit
    /\ op.result.results[1].discovered_via_graph
    /\ \E j \in 1..Len(op.results_map) :
          /\ ~op.results_map[j].discovered_via_graph
          /\ \A i \in 1..Len(op.result.results) :
                op.result.results[i].boosted_score > op.results_map[j].boosted_score

\* the latest operation was a find_related_documents call that returned its
\* related documents
FindDone ==
    op.kind = "find" /\ op.pc = "done" /\ op.result.status = "success"

\* the other documents that share an entity with document qdrant_id
SharingDocuments(qdrant_id) ==
    {nodes[d].qdrant_id :
        d \in {x \in DocumentNodes :
                 /\ nodes[x].qdrant_id # qdrant_id
                 /\ ConnectedNames(nodes[x].qdrant_id)
                        \cap ConnectedNames(qdrant_id) # {}}}

\* C17 as stated: find_related_documents with max_depth = 1 returns the other
\* documents that share an entity with the source document, and only them (all
\* of them when limit leaves room), each with distance 1, most shared entities
\* first.
C17_DepthOneSharedEntities ==
    (FindDone /\ op.args.max_depth = 1) =>
        LET r == op.result.results
            ids == {r[i].qdrant_id : i \in 1..Len(r)}
        IN /\ ids \subseteq SharingDocuments(op.args.qdrant_id)
           /\ Len(r) < op.args.limit => ids = SharingDocuments(op.args.qdrant_id)
           /\ \A i \in 1..Len(r) : r[i].distance = 1
           /\ \A i, j \in 1..Len(r) :
                 i < j => Len(r[i].shared_entities) >= Len(r[j].shared_entities)

\* C18 as stated: in the result of find_related_documents no document appears
\* twice, whatever the number of paths that reach it, and the source document
\* does not appear.
C18_EachTargetOnce ==
    FindDone =>
        LET r == op.result.results
        IN /\ \A i, j \in 1..Len(r) : r[i].qdrant_id = r[j].qdrant_id => i = j
           /\ \A i \in 1..Len(r) : r[i].qdrant_id # op.args.qdrant_id

\* C19 as stated: when relationship_types is given, every document returned by
\* find_related_documents is reached by a path whose relationships all have a
\* type of relationship_types.
C19_FilterRestrictsPaths ==
    (FindDone /\ op.args.relationship_types.given) =>
        LET r == op.result.results
            ts == op.args.relationship_types.types
        IN \A i \in 1..Len(r) : \A k \in 1..Len(r[i].rel_types) :
              \E t \in 1..Len(ts) : ts[t] = r[i].rel_types[k]

\* C20 as stated: while the breaker is half-open and the trial call is still in
\* flight, a call of another caller is not passed to the upstream.
C20_SingleTrial ==
    [][\A c \in AllCallers :
         (/\ CallsBreaker(c)
          /\ state = "half-open"
          /\ trial \notin {"none", c}
          /\ cl[trial].pc = "upstream") =>
             /\ upstream_calls' = upstream_calls
             /\ cl'[c].pc # "upstream"]_vars

\* the call of caller c that is at the upstream returns, or raises, in this step
Completes(c) == cl[c].pc = "upstream" /\ cl'[c].pc # "upstream"
Succeeds(c) ==
    cl[c].pc = "upstream" /\ Len(cl'[c].embeddings) > Len(cl[c].embeddings)

\* C21 as stated: while the breaker is open, neither a call that is rejected nor
\* a call admitted before the breaker opened that returns or raises now changes
\* the state or moves the moment from which reset_timeout is counted.
C21_OpenPeriodNotPostponed ==
    [][\A c \in AllCallers :
         (/\ state = "open"
          /\ \/ Completes(c)
             \/ CallsBreaker(c) /\ since_last_failure <= reset_timeout) =>
             /\ state' = "open"
             /\ since_last_failure' = since_last_failure]_vars

\* C22: a call that succeeds while the breaker is closed changes neither the
\* failure counter nor the state; the counter only ever grows by one, or is set
\* to 0 by a call that succeeds while the breaker is half-open, so that
\* failure_threshold failures open the breaker whatever successes lie between.
C22_CounterKeptOnSuccess ==
    [][/\ \A c \in AllCallers :
             (state = "closed" /\ Succeeds(c)) =>
                 failure_count' = failure_count /\ state' = "closed"
       /\ failure_count' # failure_count =>
             \/ failure_count' = failure_count + 1
             \/ /\ state = "half-open" /\ state' = "closed"
                /\ failure_count' = 0
                /\ \E c \in AllCallers : Succeeds(c)
       /\ (state = "closed" /\ failure_count' = failure_threshold) =>
             state' = "open"]_vars

\* failure_threshold failures with a success between them, and the breaker open
C22_Witness ==
    /\ state = "open"
    /\ failure_count = failure_threshold
    /\ streak = None
    /\ upstream_calls = failure_threshold + 1

\* C25: in every state of the shared breaker the state is closed exactly when
\* failure_count is below failure_threshold; in open and in half-open
\* failure_count is at least failure_threshold and last_failure_time is set.
C25_StateMatchesCounter ==
    /\ state = "closed" <=> failure_count < failure_threshold
    /\ state \in {"open", "half-open"} =>
          failure_count >= failure_threshold /\ since_last_failure # None

\* half-open after a failure that arrived while the breaker was open
C25_Witness ==
    /\ state = "half-open"
    /\ failure_count > failure_threshold
    /\ \E c \in Callers : cl[c].pc = "upstream"

\* the place of a request in the order of store_document_with_graph
StepRank(step) ==
    CASE step = "qdrant.upsert" -> 1
      [] step = "neo4j.driver" -> 2
      [] step = "neo4j.create_document" -> 3
      [] step \in {"neo4j.merge_entity", "neo4j.merge_relationship"} -> 4
      [] OTHER -> 5

\* C23: in every state, also after a failed call, each Document node of the
\* graph has the id of a vector point that is in the vector store; and within
\* one store call the upsert comes first and has succeeded before the Document
\* node is created, which comes before every entity and relationship write.
C23_DocumentHasPoint ==
    /\ \A i \in 1..Len(nodes) :
          nodes[i].label = "Document" => HasPoint(nodes[i].qdrant_id)
    /\ op.kind = "store" =>
          /\ \A i, j \in 1..Len(op.steps) :
                i < j => /\ StepRank(op.steps[i]) <= StepRank(op.steps[j])
                         /\ StepRank(op.steps[j]) > 1
          /\ (\E i \in 1..Len(op.steps) : StepRank(op.steps[i]) >= 3) =>
                /\ Len(op.steps) >= 3
                /\ op.steps[1] = "qdrant.upsert"
                /\ op.steps[3] = "neo4j.create_document"
                /\ HasPoint(op.qdrant_id)
          /\ (\E i \in 1..Len(op.steps) : StepRank(op.steps[i]) = 4) =>
                HasDocument(op.qdrant_id)

\* a second call failed at an entity write after its Document node was created
C23_Witness ==
    /\ StoreDone
    /\ op.result.status = "error" /\ op.result.error = "entities"
    /\ op.qdrant_id = MaxStores
    /\ HasDocument(op.qdrant_id) /\ HasPoint(op.qdrant_id)
    /\ Cardinality(points) = MaxStores

\* the characters of an identifier-safe uppercase token
SafeChars ==
    {"A", "B", "C", "D", "E", "F", "G", "H", "I", "J", "K", "L", "M", "N", "O",
     "P", "Q", "R", "S", "T", "U", "V", "W", "X", "Y", "Z",
     "0", "1", "2", "3", "4", "5", "6", "7", "8", "9", "_"}
SafeToken(t) == Len(t) > 0 /\ \A i \in 1..Len(t) : t[i] \in SafeChars

\* the number of relationship queries the call has built and sent
RelQueriesSent ==
    Cardinality({i \in 1..Len(op.steps) :
                    op.steps[i] = "neo4j.merge_relationship"})

\* C24 as stated: every relationship type that a store call has placed into a
\* graph query is a token of uppercase letters, digits and underscores, and so
\* is the type of every edge of the graph; a relation name that does not
\* become such a token never has its query built.
C24_RelTypeIdentifierSafe ==
    /\ \A e \in edges : SafeToken(e.rel)
    /\ op.kind = "store" =>
          \A k \in 1..Len(op.args.relationships) :
              k <= RelQueriesSent => SafeToken(RelType(op.args.relationships[k]))

\* C26 as stated: when an operation has returned, on whatever path, the graph
\* driver it opened is closed.
C26_DriverClosedOnReturn ==
    op.pc = "done" => op.driver # "open"

====
